---------------------------- MODULE Spec2Model ----------------------------
(***************************************************************************)
(* Model of dgraph-service/install-schema.py: the schema installer.        *)
(* The script reads a schema file, substitutes it into a mutation          *)
(* template, collapses whitespace, POSTs the result in a connecting loop   *)
(* and a polling loop, and prints the last response.                       *)
(*                                                                         *)
(* Strings are sequences of one-character strings.  The endpoint is the    *)
(* environment: every POST is either refused (ConnectionError) or answered *)
(* with a JSON body that has or has not an "errors" key.                   *)
(***************************************************************************)
EXTENDS Integers, Sequences, FiniteSets, TLC

NL == "\n"
TAB == "\t"
SP == " "

(* Bounds of the model (not program constants). *)
MaxLen == 5

(* Alphabet of the texts explored: one non-whitespace letter and the three *)
(* whitespace characters the replace chain deals with.                     *)
Alphabet == {"a", SP, NL, TAB}

RECURSIVE StringsOfLen(_)
StringsOfLen(n) ==
  IF n = 0 THEN {<<>>}
  ELSE {<<c>> \o t : c \in Alphabet, t \in StringsOfLen(n - 1)}

StringsUpTo(n) == UNION {StringsOfLen(k) : k \in 0..n}

(* line 6-16: the mutation template literal *)
template ==
    << "m", "u", "t", "a", "t", "i", "o", "n", SP, "{", NL,
       SP, SP, "u", "p", "d", "a", "t", "e", "G", "Q", "L", "S", "c", "h", "e", "m", "a", "(", NL,
       SP, SP, SP, SP, "i", "n", "p", "u", "t", ":", SP, "{", SP, "s", "e", "t", ":", SP, "{", SP, "s", "c", "h", "e", "m", "a", ":", SP, "\"", "$", "m", "y", "_", "s", "c", "h", "e", "m", "a", "\"", "}", "}", ")", NL,
       SP, SP, "{", NL,
       SP, SP, SP, SP, "g", "q", "l", "S", "c", "h", "e", "m", "a", SP, "{", NL,
       SP, SP, SP, SP, SP, SP, "s", "c", "h", "e", "m", "a", NL,
       SP, SP, SP, SP, SP, SP, "g", "e", "n", "e", "r", "a", "t", "e", "d", "S", "c", "h", "e", "m", "a", NL,
       SP, SP, SP, SP, "}", NL,
       SP, SP, "}", NL,
       "}", NL >>

Placeholder == <<"$", "m", "y", "_", "s", "c", "h", "e", "m", "a">>

(* str.find(old): position of the leftmost occurrence of old in s, 0 if none *)
find(s, old) ==
  LET occ == {p \in 1..(Len(s) - Len(old) + 1) :
                SubSeq(s, p, p + Len(old) - 1) = old}
  IN IF occ = {} THEN 0 ELSE CHOOSE p \in occ : \A q \in occ : p <= q

(* str.replace(old, new): left to right, each time the leftmost occurrence *)
(* in what is left of the string; the replacement is not scanned again     *)
RECURSIVE replace(_, _, _)
replace(s, old, new) ==
  LET p == find(s, old)
  IN IF p = 0 THEN s
     ELSE SubSeq(s, 1, p - 1) \o new
            \o replace(SubSeq(s, p + Len(old), Len(s)), old, new)

(* line 22: the four-pass replace chain *)
collapse(s) ==
  replace(replace(replace(replace(s, <<NL>>, <<>>),
                          <<SP, SP>>, <<SP>>),
                  <<TAB>>, <<SP>>),
          <<SP, SP>>, <<SP>>)

(* lines 21-22 *)
buildMutation(schemaText) == collapse(replace(template, Placeholder, schemaText))

(***************************************************************************)
(* The process.                                                            *)
(***************************************************************************)
VARIABLES
  pc,          \* position of the script
  file,        \* cardano-schema.gql as found on disk (environment)
  schema,      \* line 18
  mutation,    \* lines 6, 21, 22
  i,           \* loop index of the loop being run (next value of range)
  r,           \* the response variable (Unbound until a POST returns)
  message,     \* line 32: decoded body, a set of JSON keys
  error,       \* the unhandled exception that ended the run, or "none"
  stdout,      \* line 23: the mutation as printed
  reported,    \* lines 41-42: what the report printed
  \* history of the run (observations, not program state)
  sent,        \* the requests of all POST attempts
  connPosts,   \* POST attempts of the connecting loop
  pollPosts,   \* POST attempts of the polling loop
  waits1,      \* time.sleep(1) calls
  connRefused, \* connecting attempts that raised ConnectionError
  waitMsgs,    \* "Waiting for connection" lines printed
  waits3,      \* time.sleep(3) calls
  pollRefused, \* polling POSTs that raised ConnectionError
  responses,   \* POSTs that returned a response
  lastBody,    \* body of the most recent response
  nErr,        \* responses whose body had an "errors" key
  nonErrSeen,  \* some response had no "errors" key
  errAfterNonErr,      \* an erroring response came after a clean one
  refusedAfterAccept,  \* a connecting attempt was refused after an accepted one
  \* the replace chain on its own (lines 22)
  text, once, twice

vars == <<pc, file, schema, mutation, i, r, message, error, stdout, reported,
          sent, connPosts, pollPosts, waits1, waits3, connRefused, waitMsgs,
          pollRefused, responses, lastBody, nErr, nonErrSeen, errAfterNonErr,
          refusedAfterAccept, text, once, twice>>

progVars == <<pc, file, schema, mutation, i, r, message, error, stdout, reported>>
histVars == <<sent, connPosts, pollPosts, waits1, waits3, connRefused, waitMsgs,
              pollRefused, responses, lastBody, nErr, nonErrSeen,
              errAfterNonErr, refusedAfterAccept>>
chainVars == <<text, once, twice>>

(* Variant: the polling loop runs one iteration too many. *)
PollAttempts_OffByOne == 15 + 1

(* line 25: range(0, 15) *)
ConnectAttempts == 15

(* line 34: range(0, 15) *)
PollAttempts == 15

(* lines 27 and 36 *)
AdminUrl == "http://localhost:8080/admin"

(* Contents the schema file may have. *)
Schemas == {<<"a">>, <<"a", NL, TAB, "a">>}

(* JSON bodies the endpoint may return, as their sets of top-level keys. *)
Bodies == {{"errors"}, {"data"}}

Unbound == [id |-> 0, body |-> {}]

(* lines 27, 36: the request of requests.post(url, json={"query": mutation}) *)
Request == [url |-> AdminUrl, json |-> [query |-> mutation]]

(* History bookkeeping for a POST that returned a response with this body. *)
Observe(body) ==
  /\ responses' = responses + 1
  /\ lastBody' = body
  /\ nErr' = IF "errors" \in body THEN nErr + 1 ELSE nErr
  /\ nonErrSeen' = (nonErrSeen \/ "errors" \notin body)
  /\ errAfterNonErr' = (errAfterNonErr \/ (nonErrSeen /\ "errors" \in body))

Init ==
  /\ pc = "load"
  /\ file \in {[exists |-> TRUE, text |-> t] : t \in Schemas}
              \cup {[exists |-> FALSE, text |-> <<>>]}
  /\ schema = <<>>
  /\ mutation = template
  /\ i = 0
  /\ r = Unbound
  /\ message = {}
  /\ error = "none"
  /\ stdout = <<>>
  /\ reported = <<>>
  /\ sent = {}
  /\ connPosts = 0 /\ pollPosts = 0 /\ waits1 = 0 /\ waits3 = 0
  /\ connRefused = 0 /\ waitMsgs = 0 /\ pollRefused = 0
  /\ lastBody = {}
  /\ responses = 0 /\ nErr = 0
  /\ nonErrSeen = FALSE /\ errAfterNonErr = FALSE /\ refusedAfterAccept = FALSE
  /\ text = <<>> /\ once = <<>> /\ twice = <<>>

(* lines 17-18: open and read the schema file *)
LoadSchema ==
  /\ pc = "load"
  /\ IF file.exists
     THEN /\ schema' = file.text
          /\ pc' = "build"
          /\ error' = error
     ELSE /\ pc' = "crashed"
          /\ error' = "FileNotFoundError"
          /\ schema' = schema
  /\ UNCHANGED <<file, mutation, i, r, message, stdout, reported>>
  /\ UNCHANGED histVars
  /\ UNCHANGED chainVars

(* buildMutation tabulated over the file contents explored, so that it is *)
(* computed once and not again in every evaluation of the step           *)
builtMutation == [t \in Schemas |-> buildMutation(t)]

(* lines 21-23: substitute, collapse, print *)
BuildMutation ==
  /\ pc = "build"
  /\ mutation' = builtMutation[schema]
  /\ stdout' = Append(stdout, mutation')
  /\ pc' = "connect"
  /\ i' = 0
  /\ UNCHANGED <<file, schema, r, message, error, reported>>
  /\ UNCHANGED histVars
  /\ UNCHANGED chainVars

(* Variant: the connecting loop is left after the first accepted POST. *)
ConnectAccepted_Break ==
  /\ pc = "connect"
  /\ i < ConnectAttempts
  /\ \E body \in Bodies :
       /\ r' = [id |-> responses + 1, body |-> body]
       /\ Observe(body)
  /\ sent' = sent \cup {Request}
  /\ connPosts' = connPosts + 1
  /\ i' = ConnectAttempts
  /\ UNCHANGED <<pc, file, schema, mutation, message, error, stdout, reported>>
  /\ UNCHANGED <<pollPosts, waits1, waits3, connRefused, waitMsgs, pollRefused,
                 refusedAfterAccept>>
  /\ UNCHANGED chainVars

(* lines 25-27: an iteration of the connecting loop whose POST returns *)
ConnectAccepted ==
  /\ pc = "connect"
  /\ i < ConnectAttempts
  /\ \E body \in Bodies :
       /\ r' = [id |-> responses + 1, body |-> body]
       /\ Observe(body)
  /\ sent' = sent \cup {Request}
  /\ connPosts' = connPosts + 1
  /\ i' = i + 1
  /\ UNCHANGED <<pc, file, schema, mutation, message, error, stdout, reported>>
  /\ UNCHANGED <<pollPosts, waits1, waits3, connRefused, waitMsgs, pollRefused,
                 refusedAfterAccept>>
  /\ UNCHANGED chainVars

(* Variant: after the wait the POST is tried again in the same iteration. *)
ConnectRefused_RetryAfterWait ==
  /\ pc = "connect"
  /\ i < ConnectAttempts
  /\ sent' = sent \cup {Request}
  /\ connPosts' = connPosts + 2
  /\ waits1' = waits1 + 1
  /\ connRefused' = connRefused + 2
  /\ waitMsgs' = waitMsgs + 1
  /\ refusedAfterAccept' = (refusedAfterAccept \/ responses > 0)
  /\ i' = i + 1
  /\ UNCHANGED <<pc, file, schema, mutation, r, message, error, stdout, reported>>
  /\ UNCHANGED <<pollPosts, waits3, pollRefused, responses, lastBody, nErr,
                 nonErrSeen, errAfterNonErr>>
  /\ UNCHANGED chainVars

(* lines 25-30: an iteration of the connecting loop whose POST raises  *)
(* ConnectionError: sleep(1), print, next iteration                    *)
ConnectRefused ==
  /\ pc = "connect"
  /\ i < ConnectAttempts
  /\ sent' = sent \cup {Request}
  /\ connPosts' = connPosts + 1
  /\ waits1' = waits1 + 1
  /\ connRefused' = connRefused + 1
  /\ waitMsgs' = waitMsgs + 1
  /\ refusedAfterAccept' = (refusedAfterAccept \/ responses > 0)
  /\ i' = i + 1
  /\ UNCHANGED <<pc, file, schema, mutation, r, message, error, stdout, reported>>
  /\ UNCHANGED <<pollPosts, waits3, pollRefused, responses, lastBody, nErr,
                 nonErrSeen, errAfterNonErr>>
  /\ UNCHANGED chainVars

(* Variant: an unbound r is taken for an empty body and the run goes on. *)
Decode_DefaultResponse ==
  /\ pc = "connect"
  /\ i = ConnectAttempts
  /\ message' = r.body
  /\ pc' = "poll"
  /\ i' = 0
  /\ UNCHANGED <<file, schema, mutation, r, error, stdout, reported>>
  /\ UNCHANGED histVars
  /\ UNCHANGED chainVars

(* line 32: message = r.json(), after the connecting loop is exhausted *)
Decode ==
  /\ pc = "connect"
  /\ i = ConnectAttempts
  /\ IF r = Unbound
     THEN /\ pc' = "crashed"
          /\ error' = "NameError"
          /\ UNCHANGED <<message, i>>
     ELSE /\ message' = r.body
          /\ pc' = "poll"
          /\ i' = 0
          /\ error' = error
  /\ UNCHANGED <<file, schema, mutation, r, stdout, reported>>
  /\ UNCHANGED histVars
  /\ UNCHANGED chainVars

(* lines 34-35: an iteration of the polling loop with no "errors" in message *)
PollSkip ==
  /\ pc = "poll"
  /\ i < PollAttempts
  /\ "errors" \notin message
  /\ i' = i + 1
  /\ UNCHANGED <<pc, file, schema, mutation, r, message, error, stdout, reported>>
  /\ UNCHANGED histVars
  /\ UNCHANGED chainVars

(* Variant: message is decoded again from the response of each re-POST. *)
PollRepost_RefreshMessage ==
  /\ pc = "poll"
  /\ i < PollAttempts
  /\ "errors" \in message
  /\ \E body \in Bodies :
       /\ r' = [id |-> responses + 1, body |-> body]
       /\ message' = body
       /\ Observe(body)
  /\ sent' = sent \cup {Request}
  /\ pollPosts' = pollPosts + 1
  /\ waits3' = waits3 + 1
  /\ i' = i + 1
  /\ UNCHANGED <<pc, file, schema, mutation, error, stdout, reported>>
  /\ UNCHANGED <<connPosts, waits1, connRefused, waitMsgs, pollRefused,
                 refusedAfterAccept>>
  /\ UNCHANGED chainVars

(* Variant: the re-POST carries the schema text instead of the mutation. *)
PollRepost_OtherPayload ==
  /\ pc = "poll"
  /\ i < PollAttempts
  /\ "errors" \in message
  /\ \E body \in Bodies :
       /\ r' = [id |-> responses + 1, body |-> body]
       /\ Observe(body)
  /\ sent' = sent \cup {[url |-> AdminUrl, json |-> [query |-> schema]]}
  /\ pollPosts' = pollPosts + 1
  /\ waits3' = waits3 + 1
  /\ i' = i + 1
  /\ UNCHANGED <<pc, file, schema, mutation, message, error, stdout, reported>>
  /\ UNCHANGED <<connPosts, waits1, connRefused, waitMsgs, pollRefused,
                 refusedAfterAccept>>
  /\ UNCHANGED chainVars

(* Variant: the response of the re-POST is not assigned to r. *)
PollRepost_DropResponse ==
  /\ pc = "poll"
  /\ i < PollAttempts
  /\ "errors" \in message
  /\ \E body \in Bodies : Observe(body)
  /\ r' = r
  /\ sent' = sent \cup {Request}
  /\ pollPosts' = pollPosts + 1
  /\ waits3' = waits3 + 1
  /\ i' = i + 1
  /\ UNCHANGED <<pc, file, schema, mutation, message, error, stdout, reported>>
  /\ UNCHANGED <<connPosts, waits1, connRefused, waitMsgs, pollRefused,
                 refusedAfterAccept>>
  /\ UNCHANGED chainVars

(* lines 34-38: an iteration of the polling loop that re-POSTs, prints *)
(* and sleeps 3                                                        *)
PollRepost ==
  /\ pc = "poll"
  /\ i < PollAttempts
  /\ "errors" \in message
  /\ \E body \in Bodies :
       /\ r' = [id |-> responses + 1, body |-> body]
       /\ Observe(body)
  /\ sent' = sent \cup {Request}
  /\ pollPosts' = pollPosts + 1
  /\ waits3' = waits3 + 1
  /\ i' = i + 1
  /\ UNCHANGED <<pc, file, schema, mutation, message, error, stdout, reported>>
  /\ UNCHANGED <<connPosts, waits1, connRefused, waitMsgs, pollRefused,
                 refusedAfterAccept>>
  /\ UNCHANGED chainVars

(* Variant: a refused re-POST is handled as in the connecting loop: wait, *)
(* print, next iteration.                                                *)
PollRefused_Tolerated ==
  /\ pc = "poll"
  /\ i < PollAttempts
  /\ "errors" \in message
  /\ sent' = sent \cup {Request}
  /\ pollPosts' = pollPosts + 1
  /\ pollRefused' = pollRefused + 1
  /\ waits1' = waits1 + 1
  /\ waitMsgs' = waitMsgs + 1
  /\ i' = i + 1
  /\ UNCHANGED <<pc, file, schema, mutation, r, message, error, stdout, reported>>
  /\ UNCHANGED <<connPosts, waits3, connRefused, responses, lastBody, nErr,
                 nonErrSeen, errAfterNonErr, refusedAfterAccept>>
  /\ UNCHANGED chainVars

(* line 36: the re-POST raises ConnectionError, which nothing catches *)
PollRefused ==
  /\ pc = "poll"
  /\ i < PollAttempts
  /\ "errors" \in message
  /\ sent' = sent \cup {Request}
  /\ pollPosts' = pollPosts + 1
  /\ pc' = "crashed"
  /\ error' = "ConnectionError"
  /\ pollRefused' = pollRefused + 1
  /\ UNCHANGED <<file, schema, mutation, i, r, message, stdout, reported>>
  /\ UNCHANGED <<connPosts, waits1, waits3, connRefused, waitMsgs, responses,
                 lastBody, nErr, nonErrSeen, errAfterNonErr, refusedAfterAccept>>
  /\ UNCHANGED chainVars

(* Variant: a response that still has "errors" is raised, not reported. *)
Report_RaiseOnErrors ==
  /\ pc = "poll"
  /\ i = PollAttempts
  /\ IF "errors" \in r.body
     THEN /\ pc' = "crashed"
          /\ error' = "RuntimeError"
          /\ reported' = reported
     ELSE /\ reported' = Append(reported, [response |-> r, json |-> r.body])
          /\ pc' = "done"
          /\ error' = error
  /\ UNCHANGED <<file, schema, mutation, i, r, message, stdout>>
  /\ UNCHANGED histVars
  /\ UNCHANGED chainVars

(* lines 41-42: print(r); print(r.json()) *)
Report ==
  /\ pc = "poll"
  /\ i = PollAttempts
  /\ reported' = Append(reported, [response |-> r, json |-> r.body])
  /\ pc' = "done"
  /\ UNCHANGED <<file, schema, mutation, i, r, message, error, stdout>>
  /\ UNCHANGED histVars
  /\ UNCHANGED chainVars

Next ==
  \/ LoadSchema
  \/ BuildMutation
  \/ ConnectAccepted
  \/ ConnectRefused
  \/ Decode
  \/ PollSkip
  \/ PollRepost
  \/ PollRefused
  \/ Report

Spec == Init /\ [][Next]_vars

(* The script runs to its end: every step it can take, it takes. *)
FairSpec == Spec /\ WF_vars(Next)

Terminated == pc \in {"done", "crashed"}

(***************************************************************************)
(* The replace chain of line 22 on its own, over every text of at most     *)
(* MaxLen characters: applied once, and applied again to its own result.   *)
(***************************************************************************)
Texts == StringsUpTo(MaxLen)

ChainInit ==
  /\ pc = "chain"
  /\ text \in Texts
  /\ once = <<>> /\ twice = <<>>
  /\ file = [exists |-> FALSE, text |-> <<>>]
  /\ schema = <<>>
  /\ mutation = template
  /\ i = 0
  /\ r = Unbound
  /\ message = {}
  /\ error = "none"
  /\ stdout = <<>>
  /\ reported = <<>>
  /\ sent = {}
  /\ connPosts = 0 /\ pollPosts = 0 /\ waits1 = 0 /\ waits3 = 0
  /\ connRefused = 0 /\ waitMsgs = 0 /\ pollRefused = 0
  /\ lastBody = {}
  /\ responses = 0 /\ nErr = 0
  /\ nonErrSeen = FALSE /\ errAfterNonErr = FALSE /\ refusedAfterAccept = FALSE

(* line 22 applied to the text *)
Collapse ==
  /\ pc = "chain"
  /\ once' = collapse(text)
  /\ pc' = "collapsed"
  /\ UNCHANGED <<text, twice>>
  /\ UNCHANGED <<file, schema, mutation, i, r, message, error, stdout, reported>>
  /\ UNCHANGED histVars

(* line 22 applied to its own result *)
Recollapse ==
  /\ pc = "collapsed"
  /\ twice' = collapse(once)
  /\ pc' = "recollapsed"
  /\ UNCHANGED <<text, once>>
  /\ UNCHANGED <<file, schema, mutation, i, r, message, error, stdout, reported>>
  /\ UNCHANGED histVars

ChainNext == Collapse \/ Recollapse

ChainSpec == ChainInit /\ [][ChainNext]_vars

Whitespace == {SP, NL, TAB}

Contains(s, c) == \E k \in 1..Len(s) : s[k] = c

(* Every space of s has a space next to it. *)
NoIsolatedSpace(s) ==
  \A k \in 1..Len(s) :
    s[k] = SP => \/ (k > 1 /\ s[k - 1] = SP)
                 \/ (k < Len(s) /\ s[k + 1] = SP)

(***************************************************************************)
(* Properties.                                                             *)
(***************************************************************************)
ConnectingDone == pc \in {"poll", "done"}

(* C1: when every connection attempt is accepted and no response has an    *)
(* "errors" key, the whole run sends exactly one POST and never sleeps     *)
(* before the report.                                                      *)
C1_OnePostNoWait ==
  (pc = "done" /\ waits1 = 0 /\ nErr = 0)
    => (connPosts + pollPosts = 1 /\ waits1 + waits3 = 0)

(* C2: when the endpoint refuses the first k attempts (k < 15) and accepts *)
(* from attempt k+1 on, the connecting loop waits exactly k times and      *)
(* sends the mutation exactly once: its attempts are the k refused ones    *)
(* (one wait each) and a single accepted one.                              *)
C2_SentOnceAfterKWaits ==
  (ConnectingDone /\ responses > 0 /\ ~refusedAfterAccept)
    => connPosts - waits1 = 1

(* C3: when every attempt is accepted, the first k responses (1 <= k < 15) *)
(* have "errors" and all later ones are clean, the polling loop issues     *)
(* exactly k POSTs and k waits before the report.                          *)
C3_KExtraPosts ==
  (pc = "done" /\ waits1 = 0 /\ nErr \in 1..14 /\ nonErrSeen /\ ~errAfterNonErr)
    => (pollPosts = nErr /\ waits3 = nErr)

(* Scenario D: the file is there, the endpoint answers at least one        *)
(* connecting attempt and every polling POST, and every response has       *)
(* "errors".                                                               *)
ScenarioD ==
  /\ file.exists
  /\ nErr = responses
  /\ pc \in {"poll", "done", "crashed"} => responses > 0
  /\ error # "ConnectionError"

(* C4: if every response contains "errors", the run reaches Done after 15  *)
(* polling attempts and the report shows the last, still erroring,         *)
(* response.                                                               *)
C4_ExhaustionReports ==
  ([]ScenarioD) =>
    <>(/\ pc = "done"
       /\ error = "none"
       /\ pollPosts = 15
       /\ waits3 = 15
       /\ reported = <<[response |-> r, json |-> r.body]>>
       /\ r.id = responses
       /\ "errors" \in r.body)

C4_Witness ==
  /\ pc = "done"
  /\ nErr = responses
  /\ pollPosts = 15
  /\ Len(reported) = 1
  /\ "errors" \in reported[1].json

(* C5: if all 15 connecting attempts are refused, the run ends abnormally  *)
(* at the first use of the response: no polling, no further POST, no       *)
(* report.                                                                 *)
C5_AllRefusedCrashes ==
  (waits1 = 15 /\ ~(pc = "connect"))
    => /\ pc = "crashed"
       /\ error = "NameError"
       /\ r = Unbound
       /\ message = {}
       /\ connPosts = 15
       /\ pollPosts = 0
       /\ waits3 = 0
       /\ reported = <<>>

C5_Witness ==
  /\ pc = "crashed"
  /\ error = "NameError"
  /\ waits1 = 15
  /\ responses = 0

C7_NewlineTabBecomeSpace ==
  pc = "collapsed" =>
    /\ ~Contains(once, NL)
    /\ ~Contains(once, TAB)
    /\ \A k \in 1..(Len(text) - 2) :
         (/\ text[k] \notin Whitespace
          /\ text[k + 1] \in {NL, TAB}
          /\ text[k + 2] \notin Whitespace)
           => once = collapse(SubSeq(text, 1, k)) \o <<SP>>
                       \o collapse(SubSeq(text, k + 2, Len(text)))

(* C8: on a text without newline, tab or isolated single space, applying   *)
(* the replace chain twice gives the same as applying it once.             *)
C8_Idempotent ==
  (/\ pc = "recollapsed"
   /\ ~Contains(text, NL)
   /\ ~Contains(text, TAB)
   /\ NoIsolatedSpace(text))
    => twice = once

(* C9: every POST attempt of the run carries {"query": payload} to the     *)
(* admin URL, where payload is the mutation as built and printed at lines  *)
(* 22-23, and the mutation variable keeps that value.                      *)
C9_PayloadImmutable ==
  pc \notin {"load", "build"} /\ file.exists =>
    /\ Len(stdout) = 1
    /\ mutation = stdout[1]
    /\ \A q \in sent : q = [url |-> AdminUrl, json |-> [query |-> stdout[1]]]

C9_Witness ==
  /\ pc = "done"
  /\ waits1 > 0
  /\ pollPosts = 15
  /\ sent = {[url |-> AdminUrl, json |-> [query |-> stdout[1]]]}

(* C10: a run that ends normally has reported exactly once, after its last *)
(* POST, and the response reported is the one of the most recent POST that *)
(* returned a response, with that response's body.                         *)
C10_ReportsFinalResponse ==
  /\ Len(reported) <= 1
  /\ Len(reported) = 1 <=> pc = "done"
  /\ pc = "done" =>
       /\ responses > 0
       /\ reported[1].response.id = responses
       /\ reported[1].json = reported[1].response.body

C10_Witness ==
  /\ pc = "done"
  /\ Len(reported) = 1
  /\ pollPosts = 15
  /\ reported[1].response.id = responses
  /\ responses = 16
  /\ "errors" \notin reported[1].json

(* C11: in the connecting loop every refused attempt is followed by one    *)
(* sleep(1) and one waiting message and is not tried again in the same     *)
(* iteration, and an accepted attempt is followed by no sleep: the         *)
(* sleep(1) calls of a run are as many as the refused connecting attempts, *)
(* and every iteration makes one attempt.                                  *)
C11_OneWaitPerRefusal ==
  /\ waits1 = connRefused
  /\ waitMsgs = connRefused
  /\ pc = "connect" => connPosts = i
  /\ pc \in {"connect", "poll", "done"} =>
       connPosts = connRefused + (responses - (pollPosts - pollRefused))

C11_Witness ==
  /\ pc = "poll"
  /\ connPosts = 15
  /\ connRefused = 6
  /\ waits1 = 6
  /\ waitMsgs = 6
  /\ refusedAfterAccept

(* C12 as stated: in every run that reaches the polling loop, the polling  *)
(* POSTs and the sleep(3) calls of the run number 0 or exactly 15.         *)
C12_ZeroOrFifteen ==
  (Terminated /\ error \notin {"FileNotFoundError", "NameError"})
    => (pollPosts \in {0, 15} /\ waits3 \in {0, 15})

(* C12 amended: the polling decision rests on the body decoded once at     *)
(* line 32, which the re-POSTs do not refresh; in every run in which no    *)
(* re-POST is refused, the polling POSTs and sleep(3) calls made so far    *)
(* are one per iteration done if that body has "errors" and none           *)
(* otherwise, so a run that ends normally made 0 or exactly 15 of each.    *)
C12_ZeroOrFifteenUnlessRefused ==
  /\ pc \in {"poll", "done"} =>
       /\ waits3 = pollPosts
       /\ pollPosts = (IF "errors" \in message THEN i ELSE 0)
  /\ pc = "done" =>
       \/ pollPosts = 0 /\ waits3 = 0
       \/ pollPosts = 15 /\ waits3 = 15

C12_Witness ==
  /\ pc = "done"
  /\ pollPosts = 15
  /\ waits3 = 15
  /\ "errors" \in message
  /\ nErr = 1
  /\ "errors" \notin r.body

(* The connecting loop is over (the file was there). *)
ConnectingOver ==
  \/ pc = "connect" /\ i = ConnectAttempts
  \/ pc \in {"poll", "done"}
  \/ pc = "crashed" /\ error \in {"NameError", "ConnectionError"}

(* C13: the connecting loop always makes exactly 15 POST attempts; the     *)
(* response carried into the polling phase is that of the latest accepted  *)
(* attempt, even if later attempts were refused; the run gets past line 32 *)
(* if and only if at least one of the 15 attempts was accepted.            *)
C13_FifteenAttemptsLatestAccepted ==
  /\ ConnectingOver => connPosts = 15
  /\ (pc = "crashed" /\ error = "NameError") => connRefused = 15
  /\ (pc \in {"poll", "done"} \/ error = "ConnectionError") => connRefused < 15
  /\ (pc = "poll" /\ i = 0) =>
       /\ r = [id |-> 15 - connRefused, body |-> lastBody]
       /\ r.id = responses
       /\ message = lastBody

C13_Witness ==
  /\ pc = "poll"
  /\ i = 0
  /\ connPosts = 15
  /\ connRefused = 14
  /\ refusedAfterAccept
  /\ r.id = 1
  /\ message = lastBody

(* C14: a refusal is survived only in the connecting loop.  A refused      *)
(* re-POST of the polling loop ends the run there with an unhandled        *)
(* ConnectionError: no sleep and no message for it, no report, and no      *)
(* step at all afterwards.                                                 *)
C14_PollRefusalIsFatal ==
  /\ [](pollRefused > 0 =>
          /\ pc = "crashed"
          /\ error = "ConnectionError"
          /\ pollRefused = 1
          /\ waits3 = pollPosts - 1
          /\ waits1 = connRefused
          /\ waitMsgs = connRefused
          /\ reported = <<>>)
  /\ [](error = "ConnectionError" => pollRefused = 1)
  /\ [][pollRefused = 0]_vars

C14_Witness ==
  /\ pc = "crashed"
  /\ error = "ConnectionError"
  /\ pollRefused = 1
  /\ connRefused = 3
  /\ pollPosts = 8
  /\ waits3 = 7
  /\ reported = <<>>

=============================================================================
